---------------------------- MODULE Spec2Model ----------------------------
(***************************************************************************)
(* journey2html.py: one run of the converter.  parsecli checks the two     *)
(* paths, process_jsonfiles walks the *.json files of the directory and    *)
(* appends one DIV per file to the BODY, output_html writes the tree.      *)
(* An exception nobody catches ends the interpreter with status 1;         *)
(* parser.error ends it with status 2.                                     *)
(***************************************************************************)
EXTENDS Integers, Sequences, FiniteSets, TLC

VARIABLES
    pc,           \* position of the run: start, process, loop, write, done, abort
    dirExists,    \* Path(args.directory).exists() when the run starts
    htmlExists,   \* Path(args.htmlfile).exists() when the run starts
    parentExists, \* the directory that is to hold args.htmlfile exists
    dirEntries,   \* the files of the directory, in the order the file system lists them
    pending,      \* what the generator of listjsonfiles has still to yield
    body,         \* the children of the BODY element, in document order
    origin,       \* for each DIV built so far, the name of the file it was built from
    logged,       \* the file names of the "Processing %s file..." log lines, in order
    htmlfile,     \* what is stored at args.htmlfile
    writes,       \* how often tree.write has stored a document
    exitCode      \* exit status of the process, NotExited while it runs

vars == <<pc, dirExists, htmlExists, parentExists, dirEntries, pending, body,
          origin, logged, htmlfile, writes, exitCode>>

----------------------------------------------------------------------------
(* Bounds of the model *)

MaxFiles == 3      \* files in the directory
MaxText == 7       \* characters of an entry text (single-entry runs)
MaxPhotos == 3     \* photo references of an entry (single-entry runs)
MaxMs == 2100      \* |date_journal| in milliseconds (single-entry runs)

(* Program constants *)

NotExited == -1    \* the interpreter is still running
ExitOK == 0        \* the script ran to its end
ExitUncaught == 1  \* an exception left the script
ExitUsage == 2     \* parser.error
TitleWords == 5    \* [:5]
MsPerSecond == 1000
SecondsPerDay == 86400
ENCODING == "UTF-8"

----------------------------------------------------------------------------
(* Python values.  A str is its sequence of characters, a list its         *)
(* sequence of items.                                                      *)

PyNone == [t |-> "None"]
PyStr(s) == [t |-> "str", v |-> s]
PyList(l) == [t |-> "list", v |-> l]
PyInt(n) == [t |-> "int", v |-> n]

(* dict.get(key): the value, or None when the key is absent *)
DictGet(d, key) == IF key \in DOMAIN d THEN d[key] ELSE PyNone

----------------------------------------------------------------------------
(* convert_date *)

(* int(x / 1000): true division, then truncation towards zero.  The float  *)
(* quotient is exact enough below 2^53 ms not to cross an integer.         *)
IntTrueDiv(n, d) == IF n >= 0 THEN n \div d ELSE -((-n) \div d)

(* datetime.fromtimestamp(sec, None).isoformat(' '): the civil time of the *)
(* epoch second, here as day number since the epoch and time of day.       *)
IsoFormat(sec) ==
    LET sod == sec % SecondsPerDay
    IN  [day |-> sec \div SecondsPerDay,
         hh |-> sod \div 3600,
         mm |-> (sod % 3600) \div 60,
         ss |-> sod % 60]

(* a convert_date that shows the epoch for a missing timestamp *)
convert_date_lenient(datestr) ==
    IF datestr.t # "int"
    THEN [raised |-> FALSE, value |-> PyStr(IsoFormat(0))]
    ELSE [raised |-> FALSE,
          value |-> PyStr(IsoFormat(IntTrueDiv(datestr.v, MsPerSecond)))]

(* convert_date(datestr): raises TypeError on None *)
convert_date(datestr) ==
    IF datestr.t # "int"
    THEN [raised |-> TRUE, value |-> PyNone]
    ELSE [raised |-> FALSE,
          value |-> PyStr(IsoFormat(IntTrueDiv(datestr.v, MsPerSecond)))]

----------------------------------------------------------------------------
(* str.split(" ") and " ".join *)

RECURSIVE SplitFrom(_, _, _)
(* the tokens of s from position i on, cur being the token under way *)
SplitFrom(s, i, cur) ==
    IF i > Len(s) THEN <<cur>>
    ELSE IF s[i] = " " THEN <<cur>> \o SplitFrom(s, i + 1, <<>>)
    ELSE SplitFrom(s, i + 1, Append(cur, s[i]))

(* s.split(): runs of spaces separate, no empty tokens *)
SplitWords(s) == SelectSeq(SplitFrom(s, 1, <<>>), LAMBDA t : t # <<>>)

(* s.split(" "): every single space separates, empty tokens are kept *)
Split(s) == SplitFrom(s, 1, <<>>)

RECURSIVE Join(_)
(* " ".join(tokens) *)
Join(tokens) ==
    IF Len(tokens) = 0 THEN <<>>
    ELSE IF Len(tokens) = 1 THEN tokens[1]
    ELSE tokens[1] \o <<" ">> \o Join(Tail(tokens))

(* tokens[:n] *)
Take(seq, n) == SubSeq(seq, 1, IF Len(seq) < n THEN Len(seq) ELSE n)

(* " ".join(text.split(" ")[:5]) *)
Title(text) == Join(Take(Split(text), TitleWords))

----------------------------------------------------------------------------
(* The files of the directory.  A file has a name, a suffix and, for what  *)
(* json.load makes of it: "invalid" (JSONDecodeError) or "object" with the  *)
(* dict it parses to.                                                      *)

Invalid == [kind |-> "invalid"]
Object(d) == [kind |-> "object", obj |-> d]

File(n, sfx, j) == [name |-> n, suffix |-> sfx, json |-> j]

(* d.glob("*"): every file of the directory *)
listallfiles(entries) == entries

(* listjsonfiles: d.glob("*.json"), in the order the directory lists them *)
listjsonfiles(entries) == SelectSeq(entries, LAMBDA f : f.suffix = "json")

(* load_jsonfile: json.load, the three src.get, convert_date *)
load_jsonfile(jfile) ==
    IF jfile.json.kind # "object"
    THEN [raised |-> TRUE, content |-> PyNone]
    ELSE LET src == jfile.json.obj
             date == convert_date(DictGet(src, "date_journal"))
         IN  IF date.raised
             THEN [raised |-> TRUE, content |-> PyNone]
             ELSE [raised |-> FALSE,
                   content |-> [text |-> DictGet(src, "text"),
                                photos |-> DictGet(src, "photos"),
                                date_journal |-> date.value]]

(* E.IMG(src=image, width="600") *)
Img(image) == [tag |-> "img", src |-> image, width |-> "600"]

(* the images put in front of the ones before them *)
GalleryReversed(photos) ==
    [i \in 1..Len(photos) |-> [tag |-> "img", src |-> photos[Len(photos) + 1 - i],
                               width |-> "600"]]

(* the loop over content.get('photos'): one IMG per item, appended in turn *)
Gallery(photos) == [i \in 1..Len(photos) |-> Img(photos[i])]

(* the body of the for loop after load_jsonfile: the DIV of one entry.     *)
(* None.split raises AttributeError, iterating None raises TypeError.      *)
MakeDiv(content) ==
    IF content.text.t # "str" \/ content.photos.t # "list"
    THEN [raised |-> TRUE, div |-> PyNone]
    ELSE [raised |-> FALSE,
          div |-> [tag |-> "div",
                   children |-> << [tag |-> "h1", text |-> Title(content.text.v)],
                                   [tag |-> "h2", text |-> content.date_journal.v],
                                   [tag |-> "div",
                                    children |-> Gallery(content.photos.v)],
                                   [tag |-> "p", text |-> content.text.v] >>]]

(* one pass of the loop for jfile: the DIV, or an exception *)
ProcessOne(jfile) ==
    LET loaded == load_jsonfile(jfile)
    IN  IF loaded.raised THEN [raised |-> TRUE, div |-> PyNone]
        ELSE MakeDiv(loaded.content)

(* body.insert(0, div) *)
PrependBlock(blocks, div) == <<div>> \o blocks

(* body.append(div) *)
AppendBlock(blocks, div) == Append(blocks, div)

(* gen_html: the HEAD, and the tree that tree.write serialises *)
Document(blocks) ==
    [head |-> << [tag |-> "link", rel |-> "stylesheet", href |-> "journey.css",
                  type |-> "text/css"],
                 [tag |-> "meta", charset |-> ENCODING] >>,
     body |-> blocks]

----------------------------------------------------------------------------
(* Inputs *)

EntryFull ==
    Object([text |-> PyStr(<<"a", " ", "b">>),
            photos |-> PyList(<<"p1", "p2">>),
            date_journal |-> PyInt(1500),
            address |-> PyStr(<<"x">>)])

EntryNoAddress ==
    Object([text |-> PyStr(<<"b">>),
            photos |-> PyList(<<>>),
            date_journal |-> PyInt(500)])

EntryNoPhotos ==
    Object([text |-> PyStr(<<"a">>),
            date_journal |-> PyInt(2500),
            address |-> PyStr(<<"x">>)])

EntryNoText ==
    Object([photos |-> PyList(<<"p1">>),
            date_journal |-> PyInt(1000)])

EntryNoDate ==
    Object([text |-> PyStr(<<"a", " ", "b">>),
            photos |-> PyList(<<>>)])

(* suffix and content of the files a directory may hold *)
FileKinds ==
    { [suffix |-> "json", json |-> j] :
        j \in {EntryFull, EntryNoAddress, EntryNoPhotos, EntryNoText,
               EntryNoDate, Invalid} }
    \cup { [suffix |-> "jpg", json |-> Invalid] }

(* the orders in which n distinct file names may be listed *)
NameOrders(n) ==
    { s \in [1..n -> 1..MaxFiles] : \A i, j \in 1..n : i # j => s[i] # s[j] }

(* the listing of a directory: the files named names, of the kinds kinds *)
Listing(names, kinds) ==
    [i \in 1..Len(names) |-> File(names[i], kinds[i].suffix, kinds[i].json)]

Chars == {"a", "b", " "}
Texts == UNION { [1..n -> Chars] : n \in 0..MaxText }
PhotoLists == UNION { [1..n -> {"p1", "p2"}] : n \in 0..MaxPhotos }

(* the entries of the single-entry runs: every text, every photo list,     *)
(* every timestamp of the bounds                                           *)
SingleEntries ==
    { Object([text |-> PyStr(t), photos |-> PyList(<<"p1">>),
              date_journal |-> PyInt(1500)]) : t \in Texts }
    \cup { Object([text |-> PyStr(<<"a">>), photos |-> PyList(ps),
                   date_journal |-> PyInt(1500)]) : ps \in PhotoLists }
    \cup { Object([text |-> PyStr(<<"a">>), photos |-> PyList(<<>>),
                   date_journal |-> PyInt(ms)]) : ms \in (-MaxMs)..MaxMs }

InputOK ==
    /\ htmlExists => parentExists
    /\ ~dirExists => dirEntries = <<>>

InitRun ==
    /\ pc = "start"
    /\ pending = <<>>
    /\ body = <<>>
    /\ origin = <<>>
    /\ logged = <<>>
    /\ htmlfile = IF htmlExists THEN [state |-> "old"] ELSE [state |-> "absent"]
    /\ writes = 0
    /\ exitCode = NotExited

(* a directory of several files, any state of the two paths *)
InitDirectory ==
    /\ dirExists \in BOOLEAN
    /\ htmlExists \in BOOLEAN
    /\ parentExists \in BOOLEAN
    /\ \E n \in 0..MaxFiles :
           \E names \in NameOrders(n), kinds \in [1..n -> FileKinds] :
               dirEntries = Listing(names, kinds)
    /\ InputOK
    /\ InitRun

(* a directory of one entry, both paths in order *)
InitEntry ==
    /\ dirExists = TRUE
    /\ htmlExists = FALSE
    /\ parentExists = TRUE
    /\ dirEntries \in { <<File(1, "json", e)>> : e \in SingleEntries }
    /\ InitRun

Init == InitDirectory \/ InitEntry

----------------------------------------------------------------------------
(* Steps *)

(* the process ends: the status is set, the tree and the generator are gone *)
Exit(code) ==
    /\ pc' = IF code = ExitOK THEN "done" ELSE "abort"
    /\ exitCode' = code
    /\ body' = <<>>
    /\ pending' = <<>>

(* parsecli without the check of args.htmlfile *)
ParseCliOverwrite ==
    /\ pc = "start"
    /\ IF ~dirExists
       THEN Exit(ExitUsage)
       ELSE /\ pc' = "process"
            /\ UNCHANGED <<exitCode, body, pending>>
    /\ UNCHANGED <<dirExists, htmlExists, parentExists, dirEntries, origin,
                   logged, htmlfile, writes>>

(* parsecli: the two exists() checks *)
ParseCli ==
    /\ pc = "start"
    /\ IF ~dirExists \/ htmlExists
       THEN Exit(ExitUsage)
       ELSE /\ pc' = "process"
            /\ UNCHANGED <<exitCode, body, pending>>
    /\ UNCHANGED <<dirExists, htmlExists, parentExists, dirEntries, origin,
                   logged, htmlfile, writes>>

(* process_jsonfiles up to the loop: gen_html and the generator *)
GenHtml ==
    /\ pc = "process"
    /\ pc' = "loop"
    /\ body' = <<>>
    /\ pending' = listjsonfiles(dirEntries)
    /\ UNCHANGED <<dirExists, htmlExists, parentExists, dirEntries, origin,
                   logged, htmlfile, writes, exitCode>>

(* one pass of a loop that catches the exception and goes on *)
ProcessFileSkip ==
    /\ pc = "loop"
    /\ pending # <<>>
    /\ LET jfile == Head(pending)
           r == ProcessOne(jfile)
       IN  /\ logged' = Append(logged, jfile.name)
           /\ pending' = Tail(pending)
           /\ IF r.raised
              THEN UNCHANGED <<body, origin>>
              ELSE /\ body' = AppendBlock(body, r.div)
                   /\ origin' = Append(origin, jfile.name)
    /\ UNCHANGED <<pc, exitCode, dirExists, htmlExists, parentExists, dirEntries,
                   htmlfile, writes>>

(* one pass of the for loop *)
ProcessFile ==
    /\ pc = "loop"
    /\ pending # <<>>
    /\ LET jfile == Head(pending)
           r == ProcessOne(jfile)
       IN  /\ logged' = Append(logged, jfile.name)
           /\ IF r.raised
              THEN /\ Exit(ExitUncaught)
                   /\ UNCHANGED origin
              ELSE /\ body' = AppendBlock(body, r.div)
                   /\ origin' = Append(origin, jfile.name)
                   /\ pending' = Tail(pending)
                   /\ UNCHANGED <<pc, exitCode>>
    /\ UNCHANGED <<dirExists, htmlExists, parentExists, dirEntries, htmlfile,
                   writes>>

(* leaving the loop while the generator has files left *)
FinishLoopEarly ==
    /\ pc = "loop"
    /\ pc' = "write"
    /\ UNCHANGED <<dirExists, htmlExists, parentExists, dirEntries, pending,
                   body, origin, logged, htmlfile, writes, exitCode>>

(* the generator is exhausted: return body, getroottree() *)
FinishLoop ==
    /\ pc = "loop"
    /\ pending = <<>>
    /\ pc' = "write"
    /\ UNCHANGED <<dirExists, htmlExists, parentExists, dirEntries, pending,
                   body, origin, logged, htmlfile, writes, exitCode>>

(* output_html: tree.write, which raises when the file cannot be opened *)
OutputHtml ==
    /\ pc = "write"
    /\ IF parentExists
       THEN /\ htmlfile' = [state |-> "written", doc |-> Document(body)]
            /\ writes' = writes + 1
            /\ Exit(ExitOK)
       ELSE /\ Exit(ExitUncaught)
            /\ UNCHANGED <<htmlfile, writes>>
    /\ UNCHANGED <<dirExists, htmlExists, parentExists, dirEntries, origin,
                   logged>>

Next == ParseCli \/ GenHtml \/ ProcessFile \/ FinishLoop \/ OutputHtml

Spec == Init /\ [][Next]_vars

----------------------------------------------------------------------------
(* Vocabulary of the properties, stated on the input alone *)

(* the *.json files of the directory, in the order the directory lists them *)
JsonInput == SelectSeq(dirEntries, LAMBDA f : f.suffix = "json")

NamesOf(files) == [i \in 1..Len(files) |-> files[i].name]

IsPrefix(p, q) == Len(p) <= Len(q) /\ SubSeq(q, 1, Len(p)) = p

HasKey(f, key) == f.json.kind = "object" /\ key \in DOMAIN f.json.obj

Malformed(f) == f.json.kind = "invalid"

(* text, photos and date_journal are present *)
ValidEntry(f) ==
    HasKey(f, "text") /\ HasKey(f, "photos") /\ HasKey(f, "date_journal")

(* the required fields are present; address and photos may be missing *)
RequiredPresent(f) == HasKey(f, "text") /\ HasKey(f, "date_journal")

(* the file parses to an object that lacks text or date_journal *)
LacksRequired(f) ==
    f.json.kind = "object" /\ ~(HasKey(f, "text") /\ HasKey(f, "date_journal"))

Finished == pc \in {"done", "abort"}

CliOK == dirExists /\ ~htmlExists

(* the entry blocks: of the written document once the run is done, of the  *)
(* tree while it is built                                                  *)
Blocks == IF htmlfile.state = "written" THEN htmlfile.doc.body ELSE body

SpacesIn(str) == Cardinality({k \in 1..Len(str) : str[k] = " "})

Rank(p) ==
    CASE p = "start" -> 0
      [] p = "process" -> 1
      [] p = "loop" -> 2
      [] p = "write" -> 3
      [] OTHER -> 4

----------------------------------------------------------------------------
(* Properties *)

(* C1: when one .json file of the directory is not JSON and the others are *)
(* valid entries, the finished run has aborted, has written no HTML file   *)
(* and has a non-zero exit status; when the two paths passed parsecli that *)
(* status is the one of an uncaught exception, which is not the status of  *)
(* the path errors.  The position of the file does not matter.             *)
C1_MalformedAborts ==
    (/\ Finished
     /\ \E i \in 1..Len(JsonInput) :
            /\ Malformed(JsonInput[i])
            /\ \A j \in 1..Len(JsonInput) : j # i => ValidEntry(JsonInput[j]))
    => /\ pc = "abort"
       /\ exitCode \notin {ExitOK, NotExited}
       /\ htmlfile.state # "written"
       /\ writes = 0
       /\ CliOK => (exitCode = ExitUncaught /\ exitCode # ExitUsage)

C1_Witness ==
    /\ pc = "abort"
    /\ CliOK
    /\ Len(JsonInput) = 3
    /\ ValidEntry(JsonInput[1])
    /\ Malformed(JsonInput[2])
    /\ ValidEntry(JsonInput[3])
    /\ origin = <<JsonInput[1].name>>
    /\ exitCode = ExitUncaught

(* C2: when the directory does not exist or the HTML path exists, the run  *)
(* goes from the start to the abort state with the status of parser.error: *)
(* nothing is enumerated, logged or built, nothing is written, and what    *)
(* the HTML path held stays as it was.                                     *)
C2_PathErrorAborts ==
    (~dirExists \/ htmlExists)
    => /\ pc \in {"start", "abort"}
       /\ pc = "abort" => (exitCode = ExitUsage /\ exitCode # ExitOK)
       /\ pending = <<>>
       /\ logged = <<>>
       /\ origin = <<>>
       /\ body = <<>>
       /\ writes = 0
       /\ htmlfile = IF htmlExists THEN [state |-> "old"] ELSE [state |-> "absent"]

C2_Witness ==
    /\ pc = "abort"
    /\ dirExists
    /\ htmlExists
    /\ Len(JsonInput) >= 2
    /\ htmlfile.state = "old"
    /\ exitCode = ExitUsage

(* C3: when every .json file is a valid entry and the paths are in order,  *)
(* the finished run has written a document whose body holds one DIV per    *)
(* .json file: as many blocks as files, built from each file once.         *)
C3_OneBlockPerFile ==
    (/\ Finished
     /\ CliOK
     /\ parentExists
     /\ \A i \in 1..Len(JsonInput) : ValidEntry(JsonInput[i]))
    => /\ pc = "done"
       /\ htmlfile.state = "written"
       /\ Len(htmlfile.doc.body) = Len(JsonInput)
       /\ \A i \in 1..Len(htmlfile.doc.body) : htmlfile.doc.body[i].tag = "div"
       /\ origin = NamesOf(JsonInput)
       /\ Cardinality({origin[i] : i \in 1..Len(origin)}) = Len(JsonInput)

C3_Witness ==
    /\ pc = "done"
    /\ Len(JsonInput) = 2
    /\ Len(dirEntries) = 3
    /\ htmlfile.state = "written"
    /\ Len(htmlfile.doc.body) = 2

(* C4: a run over entries that have text and date_journal, with address or *)
(* photos possibly missing, ends with the document written, one block per  *)
(* entry, an entry without photos having an empty gallery.                 *)
C4_MissingOptionalRenders ==
    (/\ Finished
     /\ CliOK
     /\ parentExists
     /\ \A i \in 1..Len(JsonInput) : RequiredPresent(JsonInput[i]))
    => /\ pc = "done"
       /\ htmlfile.state = "written"
       /\ Len(htmlfile.doc.body) = Len(JsonInput)
       /\ \A i \in 1..Len(JsonInput) :
              ~HasKey(JsonInput[i], "photos")
              => htmlfile.doc.body[i].children[3].children = <<>>

(* C5: when the first .json file that is no valid entry parses to an       *)
(* object lacking text or date_journal, the finished run has aborted at    *)
(* that file with a non-zero status: the files after it were never taken   *)
(* up, no HTML file exists, and the blocks built before it are gone.       *)
C5_MissingRequiredAborts ==
    \A i \in 1..Len(JsonInput) :
        (/\ Finished
         /\ CliOK
         /\ LacksRequired(JsonInput[i])
         /\ \A j \in 1..(i - 1) : ValidEntry(JsonInput[j]))
        => /\ pc = "abort"
           /\ exitCode \notin {ExitOK, NotExited}
           /\ logged = NamesOf(SubSeq(JsonInput, 1, i))
           /\ origin = NamesOf(SubSeq(JsonInput, 1, i - 1))
           /\ htmlfile.state = "absent"
           /\ writes = 0
           /\ body = <<>>

C5_Witness ==
    /\ pc = "abort"
    /\ CliOK
    /\ Len(JsonInput) = 3
    /\ ValidEntry(JsonInput[1])
    /\ HasKey(JsonInput[2], "date_journal") /\ ~HasKey(JsonInput[2], "text")
    /\ Len(logged) = 2
    /\ Len(origin) = 1
    /\ htmlfile.state = "absent"

(* C6: the run moves forward through start, process, loop, write and ends  *)
(* in done or abort, from which no step leads on; the HTML file is stored  *)
(* once, by the step from write to done, after every .json file of the     *)
(* directory has become a block; a step into abort stores nothing.         *)
C6_LinearPipeline ==
    [][ /\ ~Finished
        /\ Rank(pc') >= Rank(pc)
        /\ (pc' # "abort" => Rank(pc') <= Rank(pc) + 1)
        /\ (pc' = pc => pc = "loop")
        /\ (pc' = "write" =>
               /\ pc = "loop"
               /\ origin = NamesOf(JsonInput)
               /\ Len(body) = Len(JsonInput))
        /\ ((writes' # writes \/ htmlfile' # htmlfile) =>
               /\ pc = "write" /\ pc' = "done"
               /\ writes = 0 /\ writes' = 1
               /\ origin = NamesOf(JsonInput)
               /\ htmlfile'.state = "written"
               /\ htmlfile'.doc.body = body
               /\ Len(body) = Len(JsonInput))
        /\ (pc' = "done" => (pc = "write" /\ writes' = 1))
        /\ (pc' = "abort" => (writes' = 0 /\ htmlfile' = htmlfile))
      ]_vars

C6_Witness ==
    /\ pc = "done"
    /\ writes = 1
    /\ Len(origin) = 3
    /\ htmlfile.state = "written"

(* C7: the blocks stand in the order in which the directory lists the      *)
(* .json files: the files are taken up in that order, and the i-th block   *)
(* holds the text and the photos of the i-th file, whatever the dates.     *)
C7_EnumerationOrder ==
    /\ IsPrefix(origin, NamesOf(JsonInput))
    /\ IsPrefix(logged, NamesOf(JsonInput))
    /\ (pc \in {"loop", "write", "done"} =>
           /\ Len(Blocks) = Len(origin)
           /\ \A i \in 1..Len(Blocks) :
                  /\ Blocks[i].children[4].text = JsonInput[i].json.obj.text.v
                  /\ Len(Blocks[i].children[3].children)
                         = Len(JsonInput[i].json.obj.photos.v))

C7_Witness ==
    /\ pc = "done"
    /\ Len(JsonInput) = 2
    /\ JsonInput[1].name > JsonInput[2].name
    /\ JsonInput[1].json.obj.date_journal.v > JsonInput[2].json.obj.date_journal.v
    /\ Len(htmlfile.doc.body) = 2
    /\ htmlfile.doc.body[1] # htmlfile.doc.body[2]

(* C8: the date shown in a block is the civil time of the epoch second     *)
(* floor(date_journal / 1000), for every integer date_journal.             *)
C8_FloorSeconds ==
    \A i \in 1..Len(Blocks) :
        Blocks[i].children[2].text
            = IsoFormat(JsonInput[i].json.obj.date_journal.v \div MsPerSecond)

(* C9: the gallery of a block holds one IMG per photo reference of its     *)
(* entry, in the order of photos, each of width 600 and with the reference *)
(* as its src; equal references give equal images, no reference no image.  *)
C9_Gallery ==
    \A i \in 1..Len(Blocks) :
        LET photos == JsonInput[i].json.obj.photos.v
            gallery == Blocks[i].children[3]
        IN  /\ gallery.tag = "div"
            /\ Len(gallery.children) = Len(photos)
            /\ \A k \in 1..Len(photos) :
                   gallery.children[k]
                       = [tag |-> "img", src |-> photos[k], width |-> "600"]

C9_Witness ==
    /\ pc = "done"
    /\ Len(Blocks) = 1
    /\ JsonInput[1].json.obj.photos.v = <<"p2", "p1", "p1">>
    /\ Len(Blocks[1].children[3].children) = 3

(* C10: the H1 of a block is the longest prefix of the entry text with at  *)
(* most four spaces that ends where the text ends or before a space, which *)
(* is the first five space-separated tokens joined by one space; the H2    *)
(* holds the formatted date and the P the whole text.                      *)
C10_TitleIsPrefix ==
    \A i \in 1..Len(Blocks) :
        LET entry == JsonInput[i].json.obj
            text == entry.text.v
            h1 == Blocks[i].children[1]
        IN  /\ h1.tag = "h1"
            /\ IsPrefix(h1.text, text)
            /\ SpacesIn(h1.text) <= TitleWords - 1
            /\ (h1.text # text =>
                   /\ SpacesIn(h1.text) = TitleWords - 1
                   /\ text[Len(h1.text) + 1] = " ")
            /\ Blocks[i].children[2]
                   = [tag |-> "h2", text |-> convert_date(entry.date_journal).value.v]
            /\ Blocks[i].children[4] = [tag |-> "p", text |-> text]

C10_Witness ==
    /\ pc = "done"
    /\ Len(Blocks) = 1
    /\ JsonInput[1].json.obj.text.v = <<"a", " ", " ", "b", " ", " ", " ">>
    /\ Blocks[1].children[1].text = <<"a", " ", " ", "b", " ", " ">>

=============================================================================
